---- MODULE Spec2Model ----
(***************************************************************************)
(* Asterisk Manager Interface engine (services/asterisk-manager/ami.ts):   *)
(* the Manager class, an EventEmitter that owns one TCP connection,        *)
(* assembles inbound text into blocks, routes them to completion           *)
(* callbacks and event channels, holds actions until login succeeds and    *)
(* reconnects with a growing backoff.                                      *)
(*                                                                         *)
(* Text is modelled character by character: a string is a sequence of      *)
(* one-character strings.                                                  *)
(***************************************************************************)
EXTENDS Integers, Sequences, FiniteSets, TLC

(***************************************************************************)
(* Text primitives of the JavaScript runtime used by the engine.           *)
(***************************************************************************)
UpperChars == <<"A","B","C","D","E","F","G","H","I","J","K","L","M",
                "N","O","P","Q","R","S","T","U","V","W","X","Y","Z">>
LowerChars == <<"a","b","c","d","e","f","g","h","i","j","k","l","m",
                "n","o","p","q","r","s","t","u","v","w","x","y","z">>

LowerChar(c) ==
  IF \E i \in 1..26 : UpperChars[i] = c
  THEN LowerChars[CHOOSE i \in 1..26 : UpperChars[i] = c]
  ELSE c

\* String.prototype.toLowerCase
ToLower(s) == [i \in 1..Len(s) |-> LowerChar(s[i])]

\* the characters matched by \s that can occur on the wire
IsSpace(c) == c \in {" ", "\t", "\r", "\n"}

\* s.substr(0, Len(p)) === p
HasPrefix(s, p) == Len(s) >= Len(p) /\ SubSeq(s, 1, Len(p)) = p

\* String.prototype.indexOf, 1-based; 0 when p does not occur in s
IndexOf(s, p) ==
  LET hits == {i \in 1..(Len(s) - Len(p) + 1) : SubSeq(s, i, i + Len(p) - 1) = p}
  IN IF hits = {} THEN 0 ELSE CHOOSE i \in hits : \A j \in hits : i <= j

\* Array.prototype.join
RECURSIVE Join(_, _)
Join(parts, sep) ==
  IF parts = <<>> THEN <<>>
  ELSE IF Len(parts) = 1 THEN parts[1]
  ELSE parts[1] \o sep \o Join(Tail(parts), sep)

\* s.split(/\r?\n/): a separator is a "\n" together with the "\r" right
\* before it, if any; the pieces are the text between the separators
SplitLines(s) ==
  LET nl     == {i \in 1..Len(s) : s[i] = "\n"}
      nth(k) == CHOOSE p \in nl : Cardinality({q \in nl : q < p}) = k - 1
      from(k) == IF k = 1 THEN 1 ELSE nth(k - 1) + 1
      to(k)  == IF k = Cardinality(nl) + 1 THEN Len(s)
                ELSE IF nth(k) - 1 >= from(k) /\ s[nth(k) - 1] = "\r"
                     THEN nth(k) - 2
                ELSE nth(k) - 1
  IN [k \in 1..(Cardinality(nl) + 1) |-> SubSeq(s, from(k), to(k))]

\* utils.ts
stringHasLength(line) == Len(line) > 0

\* utils.ts: string.replace(/^\s*|\s*$/g, '')
removeSpaces(s) ==
  LET keep == {i \in 1..Len(s) : ~IsSpace(s[i])}
  IN IF keep = {} THEN <<>>
     ELSE SubSeq(s, CHOOSE i \in keep : \A j \in keep : i <= j,
                    CHOOSE i \in keep : \A j \in keep : j <= i)

\* String(n) for a natural number n
DigitChars == <<"0","1","2","3","4","5","6","7","8","9">>

RECURSIVE NumToStr(_)
NumToStr(n) ==
  IF n < 10 THEN <<DigitChars[n + 1]>>
  ELSE Append(NumToStr(n \div 10), DigitChars[(n % 10) + 1])

(***************************************************************************)
(* Literals of ami.ts.                                                     *)
(***************************************************************************)
sGreeting    == <<"A","s","t","e","r","i","s","k"," ","C","a","l","l"," ",
                  "M","a","n","a","g","e","r">>
sResponseCol == <<"r","e","s","p","o","n","s","e",":">>
sFollow      == <<"f","o","l","l","o","w">>
sFollows     == <<"f","o","l","l","o","w","s">>
sEndCommand  == <<"-","-","E","N","D"," ","C","O","M","M","A","N","D","-","-">>
sEndSms      == <<"-","-","E","N","D"," ","S","M","S"," ","E","V","E","N","T","-","-">>
sColonSp     == <<":"," ">>
sActionidCol == <<"a","c","t","i","o","n","i","d",":"," ">>
sVariable    == <<"v","a","r","i","a","b","l","e">>
sChanvariable == <<"c","h","a","n","v","a","r","i","a","b","l","e">>
sResponse    == <<"r","e","s","p","o","n","s","e">>
sActionid    == <<"a","c","t","i","o","n","i","d">>
sContent     == <<"c","o","n","t","e","n","t">>
sEvent       == <<"e","v","e","n","t">>
sUserevent   == <<"u","s","e","r","e","v","e","n","t">>
sUsereventDash == <<"u","s","e","r","e","v","e","n","t","-">>
sError       == <<"e","r","r","o","r">>
sManagerevent == <<"m","a","n","a","g","e","r","e","v","e","n","t">>
sAsterisk    == <<"a","s","t","e","r","i","s","k">>
sRawevent    == <<"r","a","w","e","v","e","n","t">>
sConnect     == <<"c","o","n","n","e","c","t">>
sClose       == <<"c","l","o","s","e">>
sLogin       == <<"l","o","g","i","n">>

(***************************************************************************)
(* ManagerEvent: a mapping from keys to values.  A value is a string       *)
(* (t = "str", v = <<the string>>), an array (t = "arr", v = its elements, *)
(* each as String() shows it) or a name-to-value mapping (t = "map",       *)
(* v = <<name1, value1, name2, ...>>).                                     *)
(***************************************************************************)
StrVal(s) == [t |-> "str", v |-> <<s>>]
ArrVal(a) == [t |-> "arr", v |-> a]
MapVal(m) == [t |-> "map", v |-> m]
EmptyItem == [k \in {} |-> StrVal(<<>>)]

Has(item, key) == key \in DOMAIN item

\* The item is made by item = {} (line 387): it inherits the properties of
\* Object.prototype.  Keys are lower-cased before they are looked up, and
\* "constructor" is the inherited name in lower case a header can spell
\* ("__proto__" apart, which no text of the model uses).  Its value is the
\* function Object, held here as a value of type "fn" with the text
\* String() gives for it.
sConstructor == <<"c","o","n","s","t","r","u","c","t","o","r">>
InheritedKeys == {sConstructor}
FnObject == [t |-> "fn", v |-> <<<<"f","u","n","c","t","i","o","n"," ","O","b","j","e","c","t","(",")"," ","{"," ","[","n","a","t","i","v","e"," ","c","o","d","e","]"," ","}">>>>]

\* key in item (line 412)
In(item, key) == Has(item, key) \/ key \in InheritedKeys

\* item[key], for a key that is in item
Get(item, key) == IF Has(item, key) THEN item[key] ELSE FnObject

Put(item, key, val) ==
  [k \in (DOMAIN item) \cup {key} |-> IF k = key THEN val ELSE item[k]]

\* JavaScript truthiness of item[key]
Truthy(item, key) ==
  /\ Has(item, key)
  /\ item[key].t = "str" => item[key].v[1] # <<>>

\* String(value): arrays are joined with ","
StringOf(val) ==
  IF val.t = "map" THEN <<"[","o","b","j","e","c","t"," ","O","b","j","e","c","t","]">>
  ELSE Join(val.v, <<",">>)

\* (item[key] as Record)[subkey] = subvalue on the flattened mapping m
RECURSIVE MapSet(_, _, _)
MapSet(m, subkey, subvalue) ==
  IF m = <<>> THEN <<subkey, subvalue>>
  ELSE IF m[1] = subkey THEN <<subkey, subvalue>> \o SubSeq(m, 3, Len(m))
  ELSE <<m[1], m[2]>> \o MapSet(SubSeq(m, 3, Len(m)), subkey, subvalue)

(***************************************************************************)
(* handleData, lines 384-426: one "Key: Value" line merged into the item   *)
(* under construction.                                                     *)
(***************************************************************************)
ParseLine(item, currentLine) ==
  LET p      == IndexOf(currentLine, sColonSp)
      first  == IF p = 0 THEN currentLine ELSE SubSeq(currentLine, 1, p - 1)
      value  == IF p = 0 THEN <<>> ELSE SubSeq(currentLine, p + 2, Len(currentLine))
      key    == ToLower(removeSpaces(first))
      q      == IndexOf(value, <<"=">>)
      subkey == IF q = 0 THEN value ELSE SubSeq(value, 1, q - 1)
      subvalue == IF q = 0 THEN <<>> ELSE SubSeq(value, q + 1, Len(value))
      base   == IF Has(item, key) /\ item[key].t = "map" THEN item[key].v ELSE <<>>
  IN IF key \in {sVariable, sChanvariable}
     THEN Put(item, key, MapVal(MapSet(base, subkey, subvalue)))
     ELSE IF In(item, key)
          THEN IF Get(item, key).t = "arr"
               THEN Put(item, key, ArrVal(Append(item[key].v, value)))
               ELSE Put(item, key, ArrVal(<<StringOf(Get(item, key)), value>>))
          ELSE Put(item, key, StrVal(value))

RECURSIVE ParseBlock(_, _)
ParseBlock(lines, item) ==
  IF lines = <<>> THEN item
  ELSE ParseBlock(Tail(lines), ParseLine(item, Head(lines)))

\* item.content.match(/actionid: ([^\r\n]+)/i): the captured group, or <<>>
\* when the expression does not match
MatchActionid(content) ==
  LET n    == Len(content)
      hits == {i \in 1..(n - 10) :
                 /\ ToLower(SubSeq(content, i, i + 9)) = sActionidCol
                 /\ content[i + 10] \notin {"\r", "\n"}}
      i0   == CHOOSE i \in hits : \A j \in hits : i <= j
      ends == {e \in (i0 + 10)..n :
                 /\ \A k \in (i0 + 10)..e : content[k] \notin {"\r", "\n"}
                 /\ (e = n \/ content[e + 1] \in {"\r", "\n"})}
  IN IF hits = {} THEN <<>>
     ELSE SubSeq(content, i0 + 10, CHOOSE e \in ends : TRUE)

\* variant: the terminator line is not popped
FollowsItemKeepEnd(lines) ==
  LET content == Join(lines, <<"\n">>)
      id      == MatchActionid(content)
      item    == Put(Put(EmptyItem, sResponse, StrVal(sFollows)),
                     sContent, StrVal(content))
  IN IF id = <<>> THEN item ELSE Put(item, sActionid, StrVal(id))

\* the item of a closed follows block (lines 372-380); lines still holds the
\* terminator line, which lines.pop() removes
FollowsItem(lines) ==
  LET content == Join(SubSeq(lines, 1, Len(lines) - 1), <<"\n">>)
      id      == MatchActionid(content)
      item    == Put(Put(EmptyItem, sResponse, StrVal(sFollows)),
                     sContent, StrVal(content))
  IN IF id = <<>> THEN item ELSE Put(item, sActionid, StrVal(id))

\* lines.filter(stringHasLength)
FilterLines(lines) == SelectSeq(lines, stringHasLength)

\* The while loop of handleData (lines 356-430) over the pending lines.
\* Returns the lines of the unfinished block and the items emitted as
\* 'rawevent', in order.
RECURSIVE AssembleLoop(_, _, _, _)
AssembleLoop(queue, lines, follow, items) ==
  IF queue = <<>> THEN [lines |-> lines, items |-> items]
  ELSE
    LET line == Head(queue)
        rest == Tail(queue)
    IN IF lines = <<>> /\ HasPrefix(line, sGreeting)
       THEN AssembleLoop(rest, lines, follow, items)
       ELSE IF /\ lines = <<>>
               /\ ToLower(SubSeq(line, 1, IF Len(line) < 9 THEN Len(line) ELSE 9))
                    = sResponseCol
               /\ IndexOf(ToLower(line), sFollow) > 0
       THEN AssembleLoop(rest, Append(lines, line), 1, items)
       ELSE IF follow > 0 /\ (line = sEndCommand \/ line = sEndSms)
       THEN AssembleLoop(rest, Append(lines, line), 2, items)
       ELSE IF follow > 1 /\ line = <<>>
       THEN AssembleLoop(rest, <<>>, 0, Append(items, FollowsItem(lines)))
       ELSE IF follow = 0 /\ line = <<>>
       THEN AssembleLoop(rest, <<>>, 0,
                         Append(items, ParseBlock(FilterLines(lines), EmptyItem)))
       ELSE AssembleLoop(rest, Append(lines, line), follow, items)

\* variant: a line without separator ends the call, as an exception thrown
\* at that line would
AssembleHalt(ctxLines, ctxLeftOver, data) ==
  LET all  == ctxLines \o SplitLines(ctxLeftOver \o data)
      q    == SubSeq(all, 1, Len(all) - 1)
      bad  == {i \in 1..Len(q) : q[i] # <<>> /\ IndexOf(q[i], sColonSp) = 0}
      cut  == IF bad = {} THEN q
              ELSE SubSeq(q, 1, (CHOOSE i \in bad : \A j \in bad : i <= j) - 1)
      loop == AssembleLoop(cut, <<>>, 0, <<>>)
  IN [lines |-> loop.lines, leftOver |-> all[Len(all)], items |-> loop.items]

\* variant: the lines of an unfinished block are not kept between two calls
AssembleForgetLines(ctxLines, ctxLeftOver, data) ==
  LET all  == SplitLines(ctxLeftOver \o data)
      loop == AssembleLoop(SubSeq(all, 1, Len(all) - 1), <<>>, 0, <<>>)
  IN [lines |-> loop.lines, leftOver |-> all[Len(all)], items |-> loop.items]

\* handleData, lines 346-350 and 432: buffering of the inbound text.  Returns
\* the new context.lines and context.leftOver and the items emitted.
Assemble(ctxLines, ctxLeftOver, data) ==
  LET all  == ctxLines \o SplitLines(ctxLeftOver \o data)
      loop == AssembleLoop(SubSeq(all, 1, Len(all) - 1), <<>>, 0, <<>>)
  IN [lines |-> loop.lines, leftOver |-> all[Len(all)], items |-> loop.items]

(***************************************************************************)
(* handleEvent (lines 303-340): the deliveries one item is routed to.  An  *)
(* entry is one closure handed to process.nextTick:                        *)
(*   kind "id"     - emit(event.actionid, error-or-undefined, event)       *)
(*   kind "lastid" - emit(context.lastid, undefined, event), the name      *)
(*                   being read when the closure runs; the entry's name    *)
(*                   records what lastid was when handleEvent ran          *)
(*   kind "chan"   - emit(name, event)                                     *)
(* err says whether the first argument of the emit is a truthy value.      *)
(***************************************************************************)
\* variant: String(event.event) without taking the first element of an array
NormalizedEventJoined(event) ==
  IF Truthy(event, sEvent)
  THEN Put(event, sEvent, StrVal(StringOf(event[sEvent])))
  ELSE event

NormalizedEvent(event) ==
  IF Truthy(event, sEvent)
  THEN Put(event, sEvent, StrVal(IF event[sEvent].t = "arr"
                                 THEN event[sEvent].v[1]
                                 ELSE StringOf(event[sEvent])))
  ELSE event

\* variant: the comparison without toLowerCase()
IsErrorResponseExact(response) == response = sError

\* line 309: event.response.toLowerCase() === 'error'
IsErrorResponse(response) == ToLower(response) = sError

handleEventEmits(event, lastid) ==
  LET ev   == NormalizedEvent(event)
      chan(name) == [kind |-> "chan", name |-> name, err |-> TRUE, ev |-> ev]
      resp ==
        IF /\ Truthy(event, sResponse)
           /\ Truthy(event, sActionid)
           /\ event[sResponse].t = "str"
        THEN << [kind |-> "id", name |-> StringOf(event[sActionid]),
                 err |-> IsErrorResponse(event[sResponse].v[1]), ev |-> ev],
                chan(sResponse) >>
        ELSE IF Truthy(event, sResponse) /\ Truthy(event, sContent)
        THEN (IF lastid # <<>>
              THEN << [kind |-> "lastid", name |-> lastid, err |-> FALSE, ev |-> ev] >>
              ELSE <<>>) \o << chan(sResponse) >>
        ELSE <<>>
      evts ==
        IF Truthy(event, sEvent)
        THEN << chan(sManagerevent), chan(ToLower(ev[sEvent].v[1])) >>
             \o (IF ToLower(ev[sEvent].v[1]) = sUserevent /\ Truthy(event, sUserevent)
                 THEN << chan(sUsereventDash \o ToLower(StringOf(event[sUserevent]))) >>
                 ELSE <<>>)
        ELSE << chan(sAsterisk) >>
  IN resp \o evts

(***************************************************************************)
(* makeActionText (lines 264-298): the text written for an action.  A      *)
(* request is the sequence of its fields [key, val] in the order of        *)
(* Object.keys; a value is a string, an array, a mapping (as in an item),  *)
(* undefined, null or a RegExp.                                            *)
(***************************************************************************)
UndefVal  == [t |-> "undefined", v |-> <<>>]
NullVal   == [t |-> "null", v |-> <<>>]
RegExpVal == [t |-> "regexp", v |-> <<>>]

\* the characters of the model's texts, by increasing UTF-16 code unit
CodeUnits == <<" ", ",", "0","1","2","3","4","5","6","7","8","9", ":", "=">>
               \o UpperChars \o LowerChars
CodeOf(c) == CHOOSE i \in 1..Len(CodeUnits) : CodeUnits[i] = c

\* a < b as Array.prototype.sort compares two strings
RECURSIVE StrBefore(_, _)
StrBefore(a, b) ==
  IF b = <<>> THEN FALSE
  ELSE IF a = <<>> THEN TRUE
  ELSE IF a[1] = b[1] THEN StrBefore(Tail(a), Tail(b))
  ELSE CodeOf(a[1]) < CodeOf(b[1])

RECURSIVE InsertSorted(_, _)
InsertSorted(sorted, x) ==
  IF sorted = <<>> THEN <<x>>
  ELSE IF StrBefore(x, sorted[1]) THEN <<x>> \o sorted
  ELSE <<sorted[1]>> \o InsertSorted(Tail(sorted), x)

\* msg.sort() (line 296)
RECURSIVE Sort(_)
Sort(msg) ==
  IF msg = <<>> THEN <<>>
  ELSE InsertSorted(Sort(SubSeq(msg, 1, Len(msg) - 1)), msg[Len(msg)])

UpperChar(c) ==
  IF \E i \in 1..26 : LowerChars[i] = c
  THEN UpperChars[CHOOSE i \in 1..26 : LowerChars[i] = c]
  ELSE c

\* nkey.charAt(0).toUpperCase() + nkey.slice(1)
formattedKey(nkey) == IF nkey = <<>> THEN <<>> ELSE <<UpperChar(nkey[1])>> \o Tail(nkey)

\* the body of the forEach of lines 268-294: what one field pushes onto msg
FieldLines(field) ==
  LET nkey == ToLower(removeSpaces(field.key))
      fkey == formattedKey(nkey)
      nval == field.val
  IN IF nkey = <<>> \/ nkey = sActionid THEN <<>>
     ELSE IF nval.t \in {"undefined", "null"} THEN <<>>
     ELSE IF nval.t = "arr" THEN << fkey \o sColonSp \o Join(nval.v, <<",">>) >>
     ELSE IF nval.t = "regexp" THEN <<>>
     ELSE IF nval.t = "map"
     THEN [i \in 1..(Len(nval.v) \div 2) |->
             fkey \o sColonSp \o nval.v[2 * i - 1] \o <<"=">> \o nval.v[2 * i]]
     ELSE << fkey \o sColonSp \o nval.v[1] >>

RECURSIVE PushFields(_, _)
PushFields(msg, req) ==
  IF req = <<>> THEN msg
  ELSE PushFields(msg \o FieldLines(Head(req)), Tail(req))

sActionIDCol == <<"A","c","t","i","o","n","I","D",":"," ">>

\* variant: the lines are joined in the order they were pushed
makeActionTextUnsorted(req, id) ==
  Join(PushFields(<<sActionIDCol \o id>>, req), <<"\r", "\n">>)
    \o <<"\r", "\n", "\r", "\n">>

makeActionText(req, id) ==
  Join(Sort(PushFields(<<sActionIDCol \o id>>, req)), <<"\r", "\n">>)
    \o <<"\r", "\n", "\r", "\n">>

(***************************************************************************)
(* Bounds of the model.                                                    *)
(***************************************************************************)
MaxSockets     == 2   \* sockets alive at the same time
MaxCalls       == 2   \* action() calls made by the caller
MaxOps         == 2   \* calls of the caller other than action()
MaxData        == 2   \* blocks received
MaxCloses      == 1   \* 'close' events received
\* the same four for the runs that follow the reconnect cycle up to its cap
BackoffCalls   == 1
BackoffOps     == 2
BackoffData    == 1
BackoffCloses  == 7
MaxClock       == 1   \* values Date.now() takes
MaxDigit       == 0   \* digits 0..MaxDigit appended to a colliding identifier
MaxLines       == 3   \* lines of the generated texts streamed to handleData
MaxFields      == 2   \* fields of the requests handed to makeActionText
\* calls, other calls, blocks and closes of the runs with named blocks
NamesCalls     == 1
NamesOps       == 1
NamesData      == 2
NamesCloses    == 1
\* other calls and closes of the runs with two connections in a row
CarryOps       == 1
CarryCloses    == 1
\* calls of getPjsipEndpoints(), and EndpointList events in one answer
EndpointCalls  == 2
MaxEndpoints   == 2

(***************************************************************************)
(* State.                                                                  *)
(***************************************************************************)
VARIABLES
  options,    \* this.options: [port, username], as given to the constructor
  context,    \* this.context (AmiContext)
  listeners,  \* one-shot completion bindings registered by this.once(id, cb)
  reconnect,  \* [set: this.reconnect is defined, on: it listens to 'close',
              \*  asked: keepConnected() was called, left: disconnect() was]
  sockets,    \* every Net.Socket whose handlers are attached to the Manager
  ticks,      \* the process.nextTick queue
  timers,     \* delays of the outstanding setTimeout timers
  clock,      \* the value Date.now() returned last
  writes,     \* log of connection.write calls
  calls,      \* log of the caller's action() and login() calls
  fired,      \* per call: the invocations of its completion callback
  loginCb,    \* per call: what login() passed on to its own callback
  assembled,  \* number of blocks emitted as 'rawevent' since the queue was empty
  delivered,  \* number, among those, of the block whose delivery ran last
  delays,     \* delays armed by attemptReconnect since a socket last connected
  budget,     \* counters of the caller's and the network's steps
  stream,     \* a text the server sends piece by piece, and what came of it:
              \* [rest: still to send, fed: received on socket sock, items and
              \*  routed: what handleData made of it, over: that socket has
              \*  closed, again: the text the next connection will be sent]
  frame,      \* a request handed to makeActionText, and the text it returned
  service     \* AsteriskService: its getPjsipEndpoints() calls, and the log
              \* of what the server sent in answer to the actions written

vars == <<options, context, listeners, reconnect, sockets, ticks, timers, clock,
          writes, calls, fired, loginCb, assembled, delivered, delays, budget,
          stream, frame, service>>

\* the part of the state the Manager's own methods read and write
Eng == [context |-> context, listeners |-> listeners, reconnect |-> reconnect,
        ticks |-> ticks, timers |-> timers, writes |-> writes, calls |-> calls,
        fired |-> fired,
        loginCb |-> loginCb, assembled |-> assembled, delivered |-> delivered,
        delays |-> delays]

SetEng(e) ==
  /\ context' = e.context
  /\ listeners' = e.listeners
  /\ reconnect' = e.reconnect
  /\ ticks' = e.ticks
  /\ timers' = e.timers
  /\ writes' = e.writes
  /\ calls' = e.calls
  /\ fired' = e.fired
  /\ loginCb' = e.loginCb
  /\ assembled' = e.assembled
  /\ delivered' = e.delivered
  /\ delays' = e.delays

NoSocket == 0          \* context.connection is undefined
NoEntry == [kind |-> "sock", name |-> <<>>, err |-> FALSE, ev |-> EmptyItem, seq |-> 0]

InitialBackoff == 10000
BackoffStep    == 10000
BackoffCap     == 60000

(***************************************************************************)
(* EventEmitter: the names that have at least one listener.                *)
(***************************************************************************)
ListenerNames(e) ==
  {l.name : l \in e.listeners} \cup {sRawevent, sError, sConnect}
    \cup (IF e.reconnect.on THEN {sClose} ELSE {})

\* variant: the identifier is used as it is, whatever listens under it
PerturbIdsOff(id, names) == {id}

\* action(), lines 184-187: the identifiers the while loop can end with
RECURSIVE PerturbIds(_, _)
PerturbIds(id, names) ==
  IF id \notin names THEN {id}
  ELSE UNION {PerturbIds(Append(id, DigitChars[d + 1]), names) : d \in 0..MaxDigit}

\* variant: the action is written whether or not the Manager has logged in
actionWithIdNoHold(e, actionObj, cb, id) ==
  IF e.context.connection = NoSocket
  THEN [e |-> [e EXCEPT !.context.held =
                 Append(@, [action |-> [actionObj EXCEPT !.actionid = id],
                            callback |-> cb])],
        id |-> id]
  ELSE [e |-> [e EXCEPT
                 !.writes = Append(@, [sock |-> e.context.connection, id |-> id,
                                       action |-> actionObj.action, cb |-> cb]),
                 !.listeners = @ \cup {[name |-> id, cb |-> cb]},
                 !.context.lastid = id],
        id |-> id]

\* variant: without a connection the action is dropped instead of held
actionWithIdDropUnsent(e, actionObj, cb, id) ==
  IF ~e.context.authenticated /\ actionObj.action # sLogin
  THEN [e |-> [e EXCEPT !.context.held =
                 Append(@, [action |-> [actionObj EXCEPT !.actionid = id],
                            callback |-> cb])],
        id |-> id]
  ELSE IF e.context.connection = NoSocket
  THEN [e |-> e, id |-> id]
  ELSE [e |-> [e EXCEPT
                 !.writes = Append(@, [sock |-> e.context.connection, id |-> id,
                                       action |-> actionObj.action, cb |-> cb]),
                 !.listeners = @ \cup {[name |-> id, cb |-> cb]},
                 !.context.lastid = id],
        id |-> id]

\* action(), lines 189-225, once the identifier is chosen
actionWithId(e, actionObj, cb, id) ==
  LET heldE == [e EXCEPT !.context.held =
                  Append(@, [action |-> [actionObj EXCEPT !.actionid = id],
                             callback |-> cb])]
  IN IF ~e.context.authenticated /\ actionObj.action # sLogin
     THEN [e |-> heldE, id |-> id]
     ELSE IF e.context.connection = NoSocket
     THEN [e |-> heldE, id |-> id]
     ELSE [e |-> [e EXCEPT
                    !.writes = Append(@, [sock |-> e.context.connection, id |-> id,
                                          action |-> actionObj.action, cb |-> cb]),
                    !.listeners = @ \cup {[name |-> id, cb |-> cb]},
                    !.context.lastid = id],
           id |-> id]

\* Manager.action: every outcome [e, id] of one call
action(e, actionObj, cb, now) ==
  LET id0 == IF actionObj.actionid # <<>> THEN actionObj.actionid ELSE NumToStr(now)
  IN {actionWithId(e, actionObj, cb, id) : id \in PerturbIds(id0, ListenerNames(e))}

\* variant: the held actions are replayed last first
RECURSIVE ReplayReversed(_, _)
ReplayReversed(e, held) ==
  IF held = <<>> THEN {e}
  ELSE UNION {ReplayReversed(r.e, SubSeq(held, 1, Len(held) - 1)) :
                r \in action(e, held[Len(held)].action, held[Len(held)].callback, 0)}

\* login(), lines 159-163: held.forEach(this.action)
RECURSIVE Replay(_, _)
Replay(e, held) ==
  IF held = <<>> THEN {e}
  ELSE UNION {Replay(r.e, Tail(held)) :
                r \in action(e, Head(held).action, Head(held).callback, 0)}

\* variant: the err argument is not looked at
loginCompletionNoErr(e, c, err) ==
  {[x EXCEPT !.loginCb[c] = Append(@, "ok")] :
     x \in Replay([e EXCEPT !.context.authenticated = TRUE,
                            !.context.held = <<>>],
                  e.context.held)}

\* login(), lines 147-166: the completion of the login action of call c
loginCompletion(e, c, err) ==
  IF err
  THEN {[e EXCEPT !.loginCb[c] = Append(@, "error")]}
  ELSE {[x EXCEPT !.loginCb[c] = Append(@, "ok")] :
          x \in Replay([e EXCEPT !.context.authenticated = TRUE,
                                 !.context.held = <<>>],
                       e.context.held)}

\* resetBackoff, lines 484-486
resetBackoff(e) == [e EXCEPT !.context.backoff = InitialBackoff]

\* variant: the delay grows at every attempt
attemptReconnectNoCap(e) ==
  [e EXCEPT !.timers = Append(@, e.context.backoff),
            !.delays = Append(@, e.context.backoff),
            !.context.backoff = @ + BackoffStep]

\* attemptReconnect, lines 456-479
attemptReconnect(e) ==
  [e EXCEPT !.timers = Append(@, e.context.backoff),
            !.delays = Append(@, e.context.backoff),
            !.context.backoff = IF @ < BackoffCap THEN @ + BackoffStep ELSE @]

\* variant: this.on(id, callback), the binding stays
onceKeep(bindings, name) == bindings

\* this.once(id, callback): the bindings left once those under name have run
onceRemove(bindings, name) == {l \in bindings : l.name # name}

RECURSIVE Emit(_, _, _)

\* variant: the closures run before those that were already waiting
nextTickLifo(queue, entries) == entries \o queue

\* process.nextTick(fn) for each of the closures built by handleEvent
nextTick(queue, entries) == queue \o entries

\* variant: handleEvent emits at once instead of through process.nextTick
RECURSIVE EmitEach(_, _, _)
EmitEach(e, emits, seq) ==
  IF emits = <<>> THEN e
  ELSE LET m == Head(emits)
           name == IF m.kind = "lastid" THEN e.context.lastid ELSE m.name
           entry == [kind |-> m.kind, name |-> m.name, err |-> m.err, ev |-> m.ev,
                     seq |-> seq]
       IN EmitEach(CHOOSE x \in Emit(e, name, entry) : TRUE, Tail(emits), seq)

handleEventSync(e, event, seq) ==
  EmitEach(e, handleEventEmits(event, e.context.lastid), seq)

\* handleEvent on the item of block number seq
handleEvent(e, event, seq) ==
  LET emits == handleEventEmits(event, e.context.lastid)
  IN [e EXCEPT !.ticks = nextTick(@, [i \in 1..Len(emits) |->
                                        [kind |-> emits[i].kind, name |-> emits[i].name,
                                         err |-> emits[i].err, ev |-> emits[i].ev,
                                         seq |-> seq]])]

\* the invocation of the completion callback of call c
RECURSIVE FireAll(_, _, _)
FireAll(es, cbs, entry) ==
  IF cbs = {} THEN es
  ELSE LET cb == CHOOSE x \in cbs : \A y \in cbs : x.c <= y.c
           c  == cb.c
           rec == [err |-> entry.err, kind |-> entry.kind,
                   resp |-> IF Has(entry.ev, sResponse)
                            THEN StringOf(entry.ev[sResponse]) ELSE <<>>]
           step(e) ==
             LET e1 == [e EXCEPT !.fired[c] = Append(@, rec)]
             IN IF cb.login THEN loginCompletion(e1, c, entry.err) ELSE {e1}
       IN FireAll(UNION {step(e) : e \in es}, cbs \ {cb}, entry)

\* variant: a response is given to the oldest binding, whatever its name
EmitOldest(e, name, entry) ==
  LET e1 == IF name = sConnect THEN resetBackoff(e)
            ELSE IF name = sClose /\ e.reconnect.on THEN attemptReconnect(e)
            ELSE IF name = sRawevent /\ entry.err
                 THEN handleEvent(e, entry.ev, entry.seq)
            ELSE e
      hit == IF \E x \in e.listeners : x.name = name
             THEN {l \in e.listeners : \A m \in e.listeners : l.cb.c <= m.cb.c}
             ELSE {}
      e2 == [e1 EXCEPT !.listeners = @ \ hit]
  IN FireAll({e2}, {l.cb : l \in hit}, entry)

\* EventEmitter.emit(name, ...): the Manager's own listeners, then the
\* completion bindings registered under the name
Emit(e, name, entry) ==
  LET e1 == IF name = sConnect THEN resetBackoff(e)
            ELSE IF name = sClose /\ e.reconnect.on THEN attemptReconnect(e)
            ELSE IF name = sRawevent /\ entry.err
                 THEN handleEvent(e, entry.ev, entry.seq)
            ELSE e
      cbs == {l.cb : l \in {x \in e.listeners : x.name = name}}
      e2 == [e1 EXCEPT !.listeners = onceRemove(@, name)]
  IN FireAll({e2}, cbs, entry)

(***************************************************************************)
(* Calls made on the Manager.  A callback is [c, login]: c numbers the     *)
(* call of action() it was passed to, login says that it is the closure    *)
(* login() builds (lines 147-166).                                         *)
(***************************************************************************)
\* one call of action() from outside the replay: the call is logged with the
\* identifier it returns
issue(e, actionObj, isLogin, now) ==
  LET c  == Len(e.calls) + 1
      e0 == [e EXCEPT !.fired = Append(@, <<>>), !.loginCb = Append(@, <<>>)]
      isHeld == ~e.context.authenticated /\ actionObj.action # sLogin
  IN {[r.e EXCEPT !.calls = Append(@, [login |-> isLogin, id |-> r.id,
                                        held |-> isHeld, at |-> now])] :
        r \in action(e0, actionObj, [c |-> c, login |-> isLogin], now)}

\* Manager.login, lines 137-168
login(e, now) == issue(e, [action |-> sLogin, actionid |-> <<>>], TRUE, now)

\* the callback connect() was given: "login" logs in, "none" does nothing
runConnectCallback(e, cb, now) == IF cb = "login" THEN login(e, now) ELSE {e}

\* Manager.isConnected, lines 250-252
isConnected(e, socks) ==
  e.context.connection # NoSocket /\ socks[e.context.connection].readyState = "open"

FreeSocket(socks) ==
  CHOOSE s \in 1..MaxSockets :
    /\ socks[s].readyState = "none"
    /\ \A t \in 1..MaxSockets : socks[t].readyState = "none" => s <= t

\* Manager.connect, lines 98-120: every outcome [e, sockets]
connect(e, socks, cb, now) ==
  IF /\ e.context.connection # NoSocket
     /\ socks[e.context.connection].readyState # "closed"
  THEN {[e |-> x, sockets |-> socks] : x \in runConnectCallback(e, cb, now)}
  ELSE LET freed == [s \in 1..MaxSockets |->
                       IF s = e.context.connection
                       THEN [readyState |-> "none", cb |-> "none"] ELSE socks[s]]
           new   == FreeSocket(freed)
       IN {[e |-> [e EXCEPT !.context.authenticated = FALSE,
                            !.context.connection = new],
            sockets |-> [freed EXCEPT ![new] = [readyState |-> "opening", cb |-> cb]]]}

CanConnect(e, socks) ==
  \/ e.context.connection # NoSocket
  \/ \E s \in 1..MaxSockets : socks[s].readyState = "none"

(***************************************************************************)
(* Inbound text the server can send.                                       *)
(***************************************************************************)
CRLF == <<"\r", "\n">>
tSuccess == <<"S","u","c","c","e","s","s">>
tError   == <<"E","r","r","o","r">>
tHangup  == <<"H","a","n","g","u","p">>

ResponseBlock(resp, id) ==
  <<"R","e","s","p","o","n","s","e",":"," ">> \o resp \o CRLF
    \o <<"A","c","t","i","o","n","I","D",":"," ">> \o id \o CRLF \o CRLF

EventBlock(name) == <<"E","v","e","n","t",":"," ">> \o name \o CRLF \o CRLF

FollowsBlock ==
  <<"R","e","s","p","o","n","s","e",":"," ","F","o","l","l","o","w","s">> \o CRLF
    \o <<"o","u","t">> \o CRLF \o sEndCommand \o CRLF \o CRLF

\* the blocks a server may send: a response to an action it was sent, an
\* event, the output of a command
Blocks ==
  {ResponseBlock(r, l.name) : r \in {tSuccess, tError}, l \in listeners}
    \cup {EventBlock(tHangup), FollowsBlock}

\* a chunk of n blocks
Chunks(n) ==
  IF n = 1 THEN Blocks ELSE {a \o b : a \in Blocks, b \in Blocks}

\* blocks whose event name or actionid is the name of a channel the Manager
\* itself listens to (lines 77-81, 130) or of the caller's identifier
tClose    == <<"C","l","o","s","e">>
tConnect  == <<"C","o","n","n","e","c","t">>
tRawEvent == <<"R","a","w","E","v","e","n","t">>
sHangup   == <<"h","a","n","g","u","p">>

NamedBlocks ==
  {EventBlock(tClose), EventBlock(tConnect), EventBlock(tRawEvent),
   ResponseBlock(tSuccess, sClose), ResponseBlock(tSuccess, sConnect),
   ResponseBlock(tError, sRawevent)}

(***************************************************************************)
(* Texts streamed to handleData in pieces of any size.                     *)
(***************************************************************************)
lFollows == <<"R","e","s","p","o","n","s","e",":"," ","F","o","l","l","o","w","s">>
lActionID7 == <<"A","c","t","i","o","n","I","D",":"," ","7">>
lPrivCmd == <<"P","r","i","v","i","l","e","g","e",":"," ","C","o","m","m","a","n","d">>
lLine1 == <<"l","i","n","e","1">>
lLine2 == <<"l","i","n","e","2">>
lOut == <<"o","u","t">>
lA1 == <<"a",":"," ","1">>
lA2 == <<"A",":"," ","2">>
lA3 == <<"a",":"," ","3">>
lNoSep == <<"g","a","r","b","a","g","e">>
lVar1 == <<"V","a","r","i","a","b","l","e",":"," ","n","=","v">>
lVar2 == <<"v","a","r","i","a","b","l","e",":"," ","m","=","w">>
lCtor1 == <<"C","o","n","s","t","r","u","c","t","o","r",":"," ","1">>
lCtor2 == <<"C","o","n","s","t","r","u","c","t","o","r",":"," ","2">>
lEvFB == <<"E","v","e","n","t",":"," ","F","u","l","l","y","B","o","o","t","e","d">>
lPrivSys == <<"P","r","i","v","i","l","e","g","e",":"," ","s","y","s","t","e","m",",","a","l","l">>
lEvUE == <<"E","v","e","n","t",":"," ","U","s","e","r","E","v","e","n","t">>
lUE == <<"U","s","e","r","E","v","e","n","t",":"," ","F","o","o">>
lEvHang == <<"E","v","e","n","t",":"," ","H","a","n","g","u","p">>
lEvOther == <<"E","v","e","n","t",":"," ","O","t","h","e","r">>
lBlank == <<>>

\* the lines, each ended by sep
Text(lines, sep) == Join(Append(lines, <<>>), sep)

\* scenario (c): the output of a command, with the headers of its response
tScenarioC == Text(<<lFollows, lActionID7, lPrivCmd, lBlank, lLine1, lLine2,
                     sEndCommand, lBlank>>, CRLF)
tFollows1  == Text(<<lFollows, lOut, sEndCommand, lBlank>>, CRLF)
tFollows2  == Text(<<lFollows, lBlank, lOut, sEndSms, lBlank>>, CRLF)
tRepeat    == Text(<<lA1, lA2, lA3, lBlank>>, CRLF)
tVariables == Text(<<lVar1, lVar2, lA1, lBlank>>, CRLF)
tCtor      == Text(<<lCtor1, lCtor2, lBlank>>, CRLF)
tGarbage1  == Text(<<lNoSep, lA1, lBlank, lA1, lA2, lBlank>>, CRLF)
tGarbage2  == Text(<<lNoSep, lBlank, lA1, lBlank, lEvHang, lBlank>>, CRLF)
tBooted    == Text(<<lEvFB, lPrivSys, lBlank>>, CRLF)
tUser1     == Text(<<lEvUE, lUE, lBlank>>, CRLF)
tUser2     == Text(<<lEvUE, lBlank>>, CRLF)
tEvents    == Text(<<lEvHang, lEvOther, lBlank>>, CRLF)
tHangUser  == Text(<<lEvHang, lUE, lBlank>>, CRLF)
tTwoBlocks == Text(<<lFollows, lOut, sEndCommand, lBlank, lEvHang, lBlank>>, <<"\n">>)

\* what a server sends on a new connection: its greeting, then an event
lGreeting == <<"A","s","t","e","r","i","s","k"," ","C","a","l","l"," ","M","a","n","a","g","e","r","/","5",".","0">>
tFirst    == Text(<<lGreeting, lEvHang, lBlank>>, CRLF)
tSecond   == Text(<<lGreeting, lEvOther, lBlank>>, CRLF)

\* every text of at most MaxLines lines over a small vocabulary
SmallLines == {lBlank, lA1, lFollows, sEndCommand}
SmallTexts ==
  UNION {{Text(ls, CRLF) : ls \in [1..n -> SmallLines]} : n \in 1..MaxLines}

Inputs ==
  {tScenarioC, tFollows1, tFollows2, tRepeat, tVariables, tCtor, tGarbage1,
   tGarbage2, tBooted, tUser1, tUser2, tEvents, tHangUser, tTwoBlocks}
    \cup SmallTexts

(***************************************************************************)
(* Requests handed to makeActionText.                                      *)
(***************************************************************************)
kAction   == <<"a","c","t","i","o","n">>
kActionID == <<"A","c","t","i","o","n","I","D">>
kVariable == <<"V","a","r","i","a","b","l","e">>
kB        == <<" ","b">>
kBUpper   == <<"B">>
kBlank    == <<" ">>

FieldKeys == {kAction, kActionID, sActionid, kVariable, kB, kBUpper, kBlank}
FieldVals ==
  {StrVal(<<"P","i","n","g">>), StrVal(<<"1">>), StrVal(<<>>), UndefVal, NullVal, RegExpVal,
   ArrVal(<< <<"1">>, <<"2">> >>), ArrVal(<<>>),
   MapVal(<< <<"n">>, <<"v">>, <<"m">>, <<"w">> >>), MapVal(<<>>)}

\* an object has each of its keys once
Requests ==
  UNION {{r \in [1..n -> [key : FieldKeys, val : FieldVals]] :
            \A i, j \in 1..n : r[i].key = r[j].key => i = j} : n \in 0..MaxFields}

FrameIds == {<<"7">>, <<"1","0">>}

(***************************************************************************)
(* Initial state: the state new Manager(port, host, username, ...) leaves. *)
(***************************************************************************)
NoSock == [readyState |-> "none", cb |-> "none"]

\* new AsteriskService(): no call of getPjsipEndpoints() yet
NoService == [calls |-> <<>>, sent |-> <<>>]

InitWith(b) ==
  /\ options = [port |-> 5038, username |-> TRUE]
  /\ context = [backoff |-> InitialBackoff, held |-> <<>>, connection |-> 1,
                authenticated |-> FALSE, lastid |-> <<>>,
                lines |-> <<>>, leftOver |-> <<>>]
  /\ listeners = {}
  /\ reconnect = [set |-> FALSE, on |-> FALSE, asked |-> FALSE, left |-> FALSE]
  /\ sockets = [s \in 1..MaxSockets |->
                  IF s = 1
                  THEN [readyState |-> "opening",
                        cb |-> IF options.username THEN "login" ELSE "none"]
                  ELSE NoSock]
  /\ ticks = <<>>
  /\ timers = <<>>
  /\ clock = 1
  /\ writes = <<>>
  /\ calls = <<>>
  /\ fired = <<>>
  /\ loginCb = <<>>
  /\ assembled = 0
  /\ delivered = 0
  /\ delays = <<>>
  /\ budget = b
  /\ service = NoService

\* makeActionText is not followed
NoFrame == [req |-> <<>>, id |-> <<>>, text |-> <<>>, done |-> TRUE]

\* no text is streamed
NoStream == [rest |-> <<>>, fed |-> <<>>, items |-> <<>>, routed |-> <<>>,
             crlf |-> FALSE, sock |-> NoSocket, over |-> FALSE, again |-> <<>>]

Init ==
  /\ InitWith([calls |-> MaxCalls, ops |-> MaxOps, data |-> MaxData,
               closes |-> MaxCloses])
  /\ stream = NoStream
  /\ frame = NoFrame

InitBackoff ==
  /\ InitWith([calls |-> BackoffCalls, ops |-> BackoffOps,
               data |-> BackoffData, closes |-> BackoffCloses])
  /\ stream = NoStream
  /\ frame = NoFrame

\* the server is about to send one of the texts of Inputs; the caller does
\* nothing
InitStream ==
  /\ InitWith([calls |-> 0, ops |-> 0, data |-> 0, closes |-> 0])
  /\ stream \in {[NoStream EXCEPT !.rest = t] : t \in Inputs}
  /\ frame = NoFrame

\* the server sends its greeting and an event on the first connection and
\* again on the one that follows it
InitCarry ==
  /\ InitWith([calls |-> 0, ops |-> CarryOps, data |-> 0, closes |-> CarryCloses])
  /\ stream = [NoStream EXCEPT !.rest = tFirst, !.again = tSecond]
  /\ frame = NoFrame

\* the service is about to be asked for the endpoints
InitEndpoints ==
  /\ InitWith([calls |-> EndpointCalls, ops |-> 0, data |-> 0, closes |-> 0])
  /\ stream = NoStream
  /\ frame = NoFrame

\* the server may send the named blocks
InitNames ==
  /\ InitWith([calls |-> NamesCalls, ops |-> NamesOps, data |-> NamesData,
               closes |-> NamesCloses])
  /\ stream = NoStream
  /\ frame = NoFrame

\* makeActionText is about to be called on one of the requests
InitFrame ==
  /\ InitWith([calls |-> 0, ops |-> 0, data |-> 0, closes |-> 0])
  /\ stream = NoStream
  /\ frame \in {[req |-> r, id |-> i, text |-> <<>>, done |-> FALSE] :
                  r \in Requests, i \in FrameIds}

(***************************************************************************)
(* AsteriskService.getPjsipEndpoints (part_000, lines 102-136).  A call is *)
(* [c: the number of the action() call sendAction made, 0 if none,         *)
(*  events: responseEvents, listening: eventHandler is a 'rawevent'        *)
(*  listener, awaited: the await of sendAction has returned or thrown,     *)
(*  outcome: the state of the promise the call returned].                  *)
(***************************************************************************)
tPJSIPShowEndpoints   == <<"P","J","S","I","P","S","h","o","w","E","n","d","p","o","i","n","t","s">>
tEndpointList         == <<"E","n","d","p","o","i","n","t","L","i","s","t">>
tEndpointListComplete == <<"E","n","d","p","o","i","n","t","L","i","s","t","C","o","m","p","l","e","t","e">>

\* lines 113-121: eventHandler of one call, given one 'rawevent'
eventHandler(call, event) ==
  LET named(name) == Has(event, sEvent) /\ event[sEvent] = StrVal(name)
      pushed == IF named(tEndpointList)
                THEN [call EXCEPT !.events = Append(@, event)] ELSE call
  IN IF named(tEndpointListComplete)
     THEN [pushed EXCEPT !.listening = FALSE,
                         !.outcome = IF @ = "pending" THEN "resolved" ELSE @]
     ELSE pushed

RECURSIVE HandleItems(_, _)
HandleItems(call, items) ==
  IF items = <<>> THEN call
  ELSE HandleItems(IF call.listening THEN eventHandler(call, Head(items)) ELSE call,
                   Tail(items))

\* this.emit('rawevent', item) for every item of a chunk, as the handlers
\* registered at line 123 see it
rawevent(svc, items) ==
  [svc EXCEPT !.calls = [k \in 1..Len(svc.calls) |-> HandleItems(svc.calls[k], items)]]

\* lines 85-100 and 125-134: what follows the first invocation of the
\* callback sendAction gave to action(); fd is the log of invocations
Settle(svc, fd) ==
  [svc EXCEPT !.calls =
     [k \in 1..Len(svc.calls) |->
        LET call == svc.calls[k]
        IN IF call.c = 0 \/ call.awaited \/ fd[call.c] = <<>> THEN call
           ELSE IF fd[call.c][1].err \/ fd[call.c][1].resp = tError
           THEN [call EXCEPT !.awaited = TRUE, !.listening = FALSE,
                             !.outcome = IF @ = "pending" THEN "rejected" ELSE @]
           ELSE [call EXCEPT !.awaited = TRUE]]]

\* what Asterisk answers to an action: a response and, to PJSIPShowEndpoints,
\* a list of events that carry the identifier of the action
ListBlock(name, id) ==
  <<"E","v","e","n","t",":"," ">> \o name \o CRLF
    \o <<"A","c","t","i","o","n","I","D",":"," ">> \o id \o CRLF \o CRLF

ServerBlock(kind, id) ==
  CASE kind = "response" -> ResponseBlock(tSuccess, id)
    [] kind = "error"    -> ResponseBlock(tError, id)
    [] kind = "list"     -> ListBlock(tEndpointList, id)
    [] kind = "complete" -> ListBlock(tEndpointListComplete, id)

(***************************************************************************)
(* Steps of the caller.                                                    *)
(***************************************************************************)
CallerIds == {<<>>, <<"1">>}
\* the values the next reading of Date.now() can give
Nows == clock..MaxClock
tPing == <<"P","i","n","g">>

\* The caller's code runs between two callbacks of the event loop, when no
\* closure waits in the process.nextTick queue, or inside a listener that a
\* delivery of the current batch invoked.
CallerTurn == ticks = <<>> \/ delivered > 0

\* manager.action(action, callback)
Action ==
  /\ CallerTurn
  /\ budget.calls > 0
  /\ \E aid \in CallerIds, now \in Nows :
       /\ aid # <<>> => now = clock
       /\ \E x \in issue(Eng, [action |-> tPing, actionid |-> aid], FALSE, now) :
            SetEng(x)
       /\ clock' = now
  /\ budget' = [budget EXCEPT !.calls = @ - 1]
  /\ UNCHANGED <<options, service, stream, frame, sockets>>

\* asteriskService.getPjsipEndpoints()
GetPjsipEndpoints ==
  /\ CallerTurn
  /\ budget.calls > 0
  /\ IF ~isConnected(Eng, sockets)
     THEN /\ service' = [service EXCEPT !.calls =
                           Append(@, [c |-> 0, events |-> <<>>, listening |-> FALSE,
                                      awaited |-> TRUE, outcome |-> "rejected"])]
          /\ SetEng(Eng)
          /\ clock' = clock
     ELSE \E now \in Nows :
            /\ \E x \in issue(Eng, [action |-> tPJSIPShowEndpoints, actionid |-> <<>>],
                              FALSE, now) : SetEng(x)
            /\ clock' = now
            /\ service' = [service EXCEPT !.calls =
                             Append(@, [c |-> Len(calls) + 1, events |-> <<>>,
                                        listening |-> TRUE, awaited |-> FALSE,
                                        outcome |-> "pending"])]
  /\ budget' = [budget EXCEPT !.calls = @ - 1]
  /\ UNCHANGED <<options, stream, frame, sockets>>

\* manager.action({action: 'Ping', actionid: 'hangup'}, callback)
ActionNamed ==
  /\ CallerTurn
  /\ budget.calls > 0
  /\ \E x \in issue(Eng, [action |-> tPing, actionid |-> sHangup], FALSE, clock) :
       SetEng(x)
  /\ budget' = [budget EXCEPT !.calls = @ - 1]
  /\ UNCHANGED <<options, service, stream, frame, sockets, clock>>

\* manager.login(username, password, events, callback)
Login ==
  /\ CallerTurn
  /\ budget.ops > 0
  /\ \E now \in Nows :
       /\ \E x \in login(Eng, now) : SetEng(x)
       /\ clock' = now
  /\ budget' = [budget EXCEPT !.ops = @ - 1]
  /\ UNCHANGED <<options, service, stream, frame, sockets>>

\* manager.connect(port, host, callback)
Connect ==
  /\ CallerTurn
  /\ budget.ops > 0
  /\ CanConnect(Eng, sockets)
  /\ \E x \in connect(Eng, sockets, "none", clock) :
       SetEng(x.e) /\ sockets' = x.sockets
  /\ budget' = [budget EXCEPT !.ops = @ - 1]
  /\ UNCHANGED <<options, service, stream, frame, clock>>

\* manager.keepConnected(), lines 125-132
KeepConnected ==
  /\ CallerTurn
  /\ budget.ops > 0
  /\ reconnect' = IF ~reconnect.set /\ ~isConnected(Eng, sockets)
                  THEN [reconnect EXCEPT !.set = TRUE, !.on = TRUE, !.asked = TRUE]
                  ELSE [reconnect EXCEPT !.asked = TRUE]
  /\ budget' = [budget EXCEPT !.ops = @ - 1]
  /\ UNCHANGED <<options, service, stream, frame, context, listeners, sockets, ticks, timers, clock, writes,
                 calls, fired, loginCb, assembled, delivered, delays>>

\* manager.disconnect(), lines 231-245
Disconnect ==
  /\ CallerTurn
  /\ budget.ops > 0
  /\ reconnect' = [reconnect EXCEPT !.on = FALSE, !.left = TRUE]
  /\ sockets' = [s \in 1..MaxSockets |->
                   IF s # context.connection THEN sockets[s]
                   ELSE IF sockets[s].readyState = "open"
                        THEN [sockets[s] EXCEPT !.readyState = "readOnly"]
                   ELSE IF sockets[s].readyState = "closed" THEN NoSock
                   ELSE sockets[s]]
  /\ context' = [context EXCEPT !.connection = NoSocket]
  /\ budget' = [budget EXCEPT !.ops = @ - 1]
  /\ UNCHANGED <<options, service, stream, frame, listeners, ticks, timers, clock, writes, calls, fired,
                 loginCb, assembled, delivered, delays>>

(***************************************************************************)
(* Steps of the event loop.  The nextTick queue is drained before the      *)
(* next socket or timer event is taken.                                    *)
(***************************************************************************)
\* one closure of the nextTick queue runs
Tick ==
  /\ ticks # <<>>
  /\ LET entry == Head(ticks)
         name  == IF entry.kind = "lastid" THEN context.lastid ELSE entry.name
         e1    == [Eng EXCEPT !.ticks = Tail(@), !.delivered = entry.seq]
     IN \E x \in Emit(e1, name, entry) :
          SetEng(IF x.ticks = <<>>
                 THEN [x EXCEPT !.assembled = 0, !.delivered = 0] ELSE x)
  /\ service' = Settle(service, fired')
  /\ UNCHANGED <<options, stream, frame, sockets, clock, budget>>

\* socket s emits 'connect': the callback of connect() (line 114), then
\* this.emit('connect') (line 115)
SocketConnect(s) ==
  /\ ticks = <<>>
  /\ sockets[s].readyState = "opening"
  /\ sockets' = [sockets EXCEPT ![s].readyState = "open"]
  /\ \E now \in Nows :
       /\ sockets[s].cb = "none" => now = clock
       /\ \E x \in runConnectCallback(Eng, sockets[s].cb, now) :
            \E y \in Emit(x, sConnect, NoEntry) : SetEng([y EXCEPT !.delays = <<>>])
       /\ clock' = now
  /\ UNCHANGED <<options, service, stream, frame, budget>>

\* socket s emits 'close' (line 116)
SocketClose(s) ==
  /\ ticks = <<>>
  /\ budget.closes > 0
  /\ sockets[s].readyState \in {"opening", "open", "readOnly"}
  /\ sockets' = [sockets EXCEPT ![s] =
                   IF s = context.connection
                   THEN [@ EXCEPT !.readyState = "closed"] ELSE NoSock]
  /\ \E y \in Emit(Eng, sClose, NoEntry) : SetEng(y)
  /\ budget' = [budget EXCEPT !.closes = @ - 1]
  /\ stream' = IF s = stream.sock THEN [stream EXCEPT !.over = TRUE] ELSE stream
  /\ UNCHANGED <<options, service, frame, clock>>

\* handleData, lines 345-433, with the 'rawevent' listener of line 77
RECURSIVE RouteItems(_, _)
RouteItems(e, items) ==
  IF items = <<>> THEN e
  ELSE RouteItems(handleEvent([e EXCEPT !.assembled = @ + 1], Head(items),
                              e.assembled + 1),
                  Tail(items))

handleData(e, data) ==
  LET a == Assemble(e.context.lines, e.context.leftOver, data)
  IN RouteItems([e EXCEPT !.context.lines = a.lines,
                          !.context.leftOver = a.leftOver],
                a.items)

\* socket s emits 'data' (line 118)
SocketData(s) ==
  /\ ticks = <<>>
  /\ sockets[s].readyState \in {"open", "readOnly"}
  /\ \E n \in 1..2 :
       /\ budget.data >= n
       /\ \E data \in Chunks(n) : SetEng(handleData(Eng, data))
       /\ budget' = [budget EXCEPT !.data = @ - n]
  /\ UNCHANGED <<options, service, stream, frame, sockets, clock>>

\* socket s emits 'data' (line 118) with one of the named blocks
SocketDataNamed(s) ==
  /\ ticks = <<>>
  /\ sockets[s].readyState \in {"open", "readOnly"}
  /\ budget.data > 0
  /\ \E data \in NamedBlocks : SetEng(handleData(Eng, data))
  /\ budget' = [budget EXCEPT !.data = @ - 1]
  /\ UNCHANGED <<options, service, stream, frame, sockets, clock>>

\* The server answers the actions in the order they were written.  Answered(w)
\* says that it has sent all it sends for write number w.
Answered(w) ==
  \E i \in 1..Len(service.sent) :
    /\ service.sent[i].w = w
    /\ \/ service.sent[i].kind \in {"error", "complete"}
       \/ writes[w].action # tPJSIPShowEndpoints

ServerTurn ==
  {w \in 1..Len(writes) : ~Answered(w) /\ \A v \in 1..(w - 1) : Answered(v)}

ServerSends(w) ==
  LET mine == SelectSeq(service.sent, LAMBDA m : m.w = w)
  IN IF mine = <<>> THEN {"response", "error"}
     ELSE {"complete"} \cup (IF Len(mine) - 1 < MaxEndpoints THEN {"list"} ELSE {})

\* socket s emits 'data' (line 118) with the next block of the server's answer
SocketDataEndpoints(s) ==
  /\ ticks = <<>>
  /\ sockets[s].readyState \in {"open", "readOnly"}
  /\ \E w \in ServerTurn :
       /\ writes[w].sock = s
       /\ \E kind \in ServerSends(w) :
            LET data == ServerBlock(kind, writes[w].id)
                a    == Assemble(context.lines, context.leftOver, data)
            IN /\ SetEng(handleData(Eng, data))
               /\ service' = [rawevent(service, a.items) EXCEPT
                                !.sent = Append(@, [w |-> w, kind |-> kind])]
  /\ UNCHANGED <<options, stream, frame, sockets, clock, budget>>

\* socket s emits 'data' with the next piece, of any length, of the streamed
\* text; once the socket fed so far has closed, s is a later connection, whose
\* server sends its own text from the start
Feed(s) ==
  /\ ticks = <<>>
  /\ sockets[s].readyState \in {"open", "readOnly"}
  /\ LET later == stream.over
         src   == IF later THEN stream.again ELSE stream.rest
         was   == IF later THEN NoStream ELSE stream
     IN /\ src # <<>>
        /\ \E k \in 1..Len(src) :
             LET data == SubSeq(src, 1, k)
                 a    == Assemble(context.lines, context.leftOver, data)
                 e    == handleData(Eng, data)
                 of(j) == SelectSeq(e.ticks, LAMBDA t : t.seq = j)
             IN /\ SetEng(e)
                /\ stream' = [rest   |-> SubSeq(src, k + 1, Len(src)),
                              fed    |-> was.fed \o data,
                              items  |-> was.items \o a.items,
                              routed |-> was.routed \o
                                           [j \in 1..Len(a.items) |->
                                              [i \in 1..Len(of(j)) |->
                                                 [kind |-> of(j)[i].kind,
                                                  name |-> of(j)[i].name]]],
                              crlf   |-> was.crlf \/
                                           (data[k] = "\r" /\ k < Len(src)
                                              /\ src[k + 1] = "\n"),
                              sock   |-> s,
                              over   |-> FALSE,
                              again  |-> IF later THEN <<>> ELSE stream.again]
  /\ UNCHANGED <<options, service, frame, sockets, clock, budget>>

\* a timer armed by attemptReconnect fires: connectFunc, lines 460-471
TimerFire ==
  /\ ticks = <<>>
  /\ \E i \in 1..Len(timers) :
       LET e1 == [Eng EXCEPT !.timers = SubSeq(@, 1, i - 1) \o SubSeq(@, i + 1, Len(@))]
           live == /\ context.connection # NoSocket
                   /\ sockets[context.connection].readyState # "closed"
       IN /\ CanConnect(e1, sockets)
          /\ \E now \in Nows :
               /\ ~(live /\ options.username) => now = clock
               /\ \E x \in connect(e1, sockets,
                                   IF options.username THEN "login" ELSE "none", now) :
                    SetEng(x.e) /\ sockets' = x.sockets
               /\ clock' = now
  /\ UNCHANGED <<options, service, stream, frame, budget>>

Next ==
  \/ Action
  \/ Login
  \/ Connect
  \/ KeepConnected
  \/ Disconnect
  \/ Tick
  \/ \E s \in 1..MaxSockets : SocketConnect(s)
  \/ \E s \in 1..MaxSockets : SocketClose(s)
  \/ \E s \in 1..MaxSockets : SocketData(s)
  \/ TimerFire

Spec == Init /\ [][Next]_vars

SpecBackoff == InitBackoff /\ [][Next]_vars

\* the Manager fed a text: the socket connects, the text arrives in pieces,
\* the deliveries run
NextStream ==
  \/ \E s \in 1..MaxSockets : SocketConnect(s)
  \/ \E s \in 1..MaxSockets : Feed(s)
  \/ Tick

SpecStream == InitStream /\ [][NextStream]_vars

\* the Manager of a caller that picks its identifiers, with a server that
\* sends the named blocks; the runtime drains the process.nextTick queue
NextNames ==
  \/ ActionNamed
  \/ KeepConnected
  \/ Tick
  \/ \E s \in 1..MaxSockets : SocketConnect(s)
  \/ \E s \in 1..MaxSockets : SocketClose(s)
  \/ \E s \in 1..MaxSockets : SocketData(s)
  \/ \E s \in 1..MaxSockets : SocketDataNamed(s)
  \/ TimerFire

SpecNames == InitNames /\ [][NextNames]_vars /\ WF_vars(Tick)

\* a connection that is fed a text and closes, and the connection the
\* caller or the reconnect timer opens after it
NextCarry ==
  \/ Connect
  \/ KeepConnected
  \/ Tick
  \/ \E s \in 1..MaxSockets : SocketConnect(s)
  \/ \E s \in 1..MaxSockets : SocketClose(s)
  \/ \E s \in 1..MaxSockets : Feed(s)
  \/ TimerFire

SpecCarry == InitCarry /\ [][NextCarry]_vars

\* the AsteriskService on its Manager, with a server that answers every
\* action it is sent
NextEndpoints ==
  \/ GetPjsipEndpoints
  \/ Tick
  \/ \E s \in 1..MaxSockets : SocketConnect(s)
  \/ \E s \in 1..MaxSockets : SocketDataEndpoints(s)

SpecEndpoints == InitEndpoints /\ [][NextEndpoints]_vars

\* this.makeActionText(actionObj, id), line 207
MakeText ==
  /\ ~frame.done
  /\ frame' = [frame EXCEPT !.text = makeActionText(frame.req, frame.id),
                            !.done = TRUE]
  /\ UNCHANGED <<options, service, context, listeners, reconnect, sockets, ticks, timers,
                 clock, writes, calls, fired, loginCb, assembled, delivered,
                 delays, budget, stream>>

NextFrame == MakeText

SpecFrame == InitFrame /\ [][NextFrame]_vars

(***************************************************************************)
(* Properties.                                                             *)
(***************************************************************************)
\* the calls of action() made while the Manager was not authenticated, login
\* actions apart
HeldCalls == {c \in 1..Len(calls) : calls[c].held}

\* the positions at which call c stands in the held queue, in the write log
HeldAt(c)    == {i \in 1..Len(context.held) : context.held[i].callback.c = c}
WrittenAt(c) == {i \in 1..Len(writes) : writes[i].cb.c = c}

LoginSucceeded == \E c \in 1..Len(calls) : \E i \in 1..Len(loginCb[c]) : loginCb[c][i] = "ok"

\* C1: an action submitted while the Manager is not authenticated (a login
\* action apart) is either still held or has been written, never both and
\* never twice; none is written before a login has succeeded; they are
\* written in the order of their submission; and none is held while the
\* Manager is authenticated and has a connection.
C1_HeldWrittenOnceInOrder ==
  /\ \A c \in HeldCalls : Cardinality(HeldAt(c)) + Cardinality(WrittenAt(c)) = 1
  /\ (\E c \in HeldCalls : WrittenAt(c) # {}) => LoginSucceeded
  /\ \A c, d \in HeldCalls :
       \A i \in WrittenAt(c), j \in WrittenAt(d) : c < d => i < j
  /\ (context.authenticated /\ context.connection # NoSocket)
       => \A c \in HeldCalls : HeldAt(c) = {}

\* two actions held before the login succeeded have both been written
C1_Witness ==
  \E c, d \in HeldCalls : c < d /\ WrittenAt(c) # {} /\ WrittenAt(d) # {}

\* C2: a call of action() with a non-login action made while the Manager is
\* not authenticated appends the action, under the identifier the call
\* returns, to the held queue and changes neither the write log, nor the
\* completion bindings, nor lastid.
C2_HoldChangesOnlyHeld ==
  [][(/\ Len(calls') = Len(calls) + 1
      /\ ~calls'[Len(calls')].login
      /\ ~context.authenticated)
     => /\ writes' = writes
        /\ listeners' = listeners
        /\ context'.lastid = context.lastid
        /\ context'.held =
             Append(context.held,
                    [action |-> [action |-> tPing, actionid |-> calls'[Len(calls')].id],
                     callback |-> [c |-> Len(calls'), login |-> FALSE]])]_vars

\* an action is held behind a login action that has been written
C2_Witness ==
  /\ writes # <<>>
  /\ \E c \in HeldCalls : HeldAt(c) # {}

\* the calls whose completion is still awaited: held, or bound to an identifier
Pending(c) ==
  /\ fired[c] = <<>>
  /\ \/ HeldAt(c) # {}
     \/ \E l \in listeners : l.cb.c = c

\* C3: the identifiers action() returned to two calls that are both pending
\* differ.
C3_PendingIdsDistinct ==
  \A c, d \in 1..Len(calls) :
    (c # d /\ Pending(c) /\ Pending(d)) => calls[c].id # calls[d].id

\* C4: at most one completion binding is registered under an identifier.
C4_OneBindingPerId ==
  \A l, m \in listeners : l.name = m.name => l = m

\* an identifier was perturbed because a binding was registered under it
C4_Witness ==
  \E l, m \in listeners :
    /\ Len(m.name) = Len(l.name) + 1
    /\ SubSeq(m.name, 1, Len(l.name)) = l.name

\* C5: the completion callback of a call is invoked at most once.
C5_CallbackAtMostOnce ==
  \A c \in 1..Len(calls) : Len(fired[c]) <= 1

\* a second response to an action is about to be delivered after the
\* callback of the action ran
C5_Witness ==
  \E c \in 1..Len(calls) :
    /\ Len(fired[c]) = 1
    /\ ticks # <<>>
    /\ Head(ticks).kind = "id"
    /\ Head(ticks).name = calls[c].id
    /\ WrittenAt(c) # {}

\* "error" in any mix of upper and lower case
IsErrorWord(r) ==
  /\ Len(r) = 5
  /\ r[1] \in {"e", "E"}
  /\ r[2] \in {"r", "R"}
  /\ r[3] \in {"r", "R"}
  /\ r[4] \in {"o", "O"}
  /\ r[5] \in {"r", "R"}

\* C6: a completion callback invoked for a response that carries its
\* identifier is given an error exactly when the response field is "error",
\* whatever the case of its letters.
C6_ErrorIffResponseError ==
  \A c \in 1..Len(calls) : \A i \in 1..Len(fired[c]) :
    fired[c][i].kind = "id" => (fired[c][i].err <=> IsErrorWord(fired[c][i].resp))

\* a callback was given an error for the response "Error"
C6_Witness ==
  \E c \in 1..Len(calls) :
    /\ fired[c] # <<>>
    /\ fired[c][1].kind = "id"
    /\ fired[c][1].err
    /\ fired[c][1].resp = tError

\* call c's completion callback is invoked in the step, on a delivery that
\* handleEvent produced
Delivered(c) ==
  /\ Len(fired'[c]) > (IF c <= Len(fired) THEN Len(fired[c]) ELSE 0)
  /\ fired'[c][Len(fired'[c])].kind # "sock"

\* C7: a completion callback is invoked on a delivery of handleEvent only in
\* a step that runs the closure at the head of the process.nextTick queue,
\* and only for a call of action() that had already returned.
C7_DeliveryDeferred ==
  [][\A c \in 1..Len(fired') :
       Delivered(c) => /\ c <= Len(calls)
                       /\ ticks # <<>>
                       /\ Len(ticks') >= Len(ticks) - 1
                       /\ SubSeq(ticks', 1, Len(ticks) - 1) = Tail(ticks)]_vars

\* the callback of an action that was written has run on the response to it
C7_Witness ==
  \E c \in 1..Len(calls) :
    /\ ~calls[c].login
    /\ WrittenAt(c) # {}
    /\ Len(fired[c]) = 1
    /\ fired[c][1].kind = "id"

\* C8: the deliveries waiting in the process.nextTick queue stand in the
\* order in which their blocks were assembled, none of them for a block
\* assembled before the block whose delivery ran last.
C8_DeliveryInAssemblyOrder ==
  /\ \A i, j \in 1..Len(ticks) : i < j => ticks[i].seq <= ticks[j].seq
  /\ ticks # <<>> => delivered <= Head(ticks).seq

\* of two blocks of one chunk, the first has been delivered and the second
\* waits
C8_Witness ==
  /\ delivered = 1
  /\ ticks # <<>>
  /\ Head(ticks).seq = 2

\* the callback login() passed to action() for call c is invoked in the
\* step, with an error or without
LoginDelivered(c, err) ==
  /\ calls[c].login
  /\ Len(fired'[c]) = Len(fired[c]) + 1
  /\ fired'[c][Len(fired'[c])].err = err

\* C9: when the login action completes with an error, the caller's callback
\* is given the error, the authenticated flag and the held queue stay as
\* they are and nothing is written; when a login action completes without
\* error on a Manager that has a connection, the held actions are written,
\* in their order, and the queue is left empty.
C9_LoginErrorKeepsHeld ==
  [][\A c \in 1..Len(calls) :
       /\ LoginDelivered(c, TRUE)
            => /\ loginCb'[c] = Append(loginCb[c], "error")
               /\ context'.authenticated = context.authenticated
               /\ context'.held = context.held
               /\ writes' = writes
       /\ (LoginDelivered(c, FALSE) /\ context.connection # NoSocket)
            => /\ loginCb'[c] = Append(loginCb[c], "ok")
               /\ context'.authenticated
               /\ context'.held = <<>>
               /\ Len(writes') = Len(writes) + Len(context.held)
               /\ \A i \in 1..Len(context.held) :
                    writes'[Len(writes) + i].cb = context.held[i].callback]_vars

\* a login failed, a later one succeeded, and an action held since before
\* the failure has been written
C9_Witness ==
  \E c, d \in 1..Len(calls) : \E h \in HeldCalls :
    /\ c < d
    /\ h < d
    /\ calls[c].login /\ loginCb[c] = <<"error">>
    /\ calls[d].login /\ loginCb[d] = <<"ok">>
    /\ WrittenAt(h) # {}

Min(a, b) == IF a <= b THEN a ELSE b

\* C10: the delays of the reconnect attempts made since a socket last
\* connected (since construction, before any did) are 10000, 20000, ...,
\* each 10000 more than the one before and none above 60000, and the delay
\* the next attempt will use follows them in the same way.
C10_BackoffSchedule ==
  /\ delays # <<>> => delays[1] = 10000
  /\ \A i \in 1..(Len(delays) - 1) : delays[i + 1] = Min(delays[i] + 10000, 60000)
  /\ context.backoff = IF delays = <<>> THEN 10000
                       ELSE Min(delays[Len(delays)] + 10000, 60000)
  /\ \A i \in 1..Len(timers) : timers[i] >= 10000 /\ timers[i] <= 60000

\* seven attempts in a row: the sixth and the seventh both wait 60000
C10_Witness ==
  /\ Len(delays) >= 7
  /\ delays[6] = 60000
  /\ delays[7] = 60000

\* C11: at most one timer armed by attemptReconnect is outstanding.
C11_OneReconnectTimer == Len(timers) <= 1

\* C12: once disconnect() has left the Manager without a connection, only a
\* call of connect() by the caller gives it one again: no step of the
\* Manager's own (a reconnect timer firing) opens a connection.
C12_DisconnectPermanent ==
  [][(context.connection = NoSocket /\ context'.connection # NoSocket)
       => budget'.ops < budget.ops]_vars

\* C13: when disconnect() returns, the held queue is empty and no completion
\* binding registered by action() is left.
C13_DisconnectClearsPending ==
  [][(context.connection # NoSocket /\ context'.connection = NoSocket)
       => (context'.held = <<>> /\ listeners' = {})]_vars

\* C14: whatever the pieces a text reached handleData in, the items emitted
\* so far and the pending lines and partial line are those handleData leaves
\* when given the same text in one call.
C14_ChunkIndependent ==
  LET one == Assemble(<<>>, <<>>, stream.fed)
  IN /\ stream.items = one.items
     /\ context.lines = one.lines
     /\ context.leftOver = one.leftOver

\* the command output of scenario (c) arrived whole, in pieces one of which
\* ended between a CR and its LF
C14_Witness ==
  /\ stream.fed = tScenarioC
  /\ stream.rest = <<>>
  /\ stream.crlf
  /\ Len(stream.items) = 1

\* follows blocks as lines, from the response line to the terminator
FollowsShapes ==
  {<<lFollows, lOut, sEndCommand>>,
   <<lFollows, lBlank, lOut, sEndSms>>,
   <<lFollows, lActionID7, lPrivCmd, lBlank, lLine1, lLine2, sEndCommand>>}

\* C15: a follows block (a response line containing "follow", lines, a
\* terminator line, a blank line) makes handleData emit nothing before its
\* blank line is complete, blank lines inside it included, and then exactly
\* one item, with response "follows" and as content the lines before the
\* terminator joined by "\n".
C15_FollowsBlockOneItem ==
  /\ \A ls \in FollowsShapes :
       stream.fed \o stream.rest = Text(Append(ls, lBlank), CRLF)
         => IF stream.rest # <<>> THEN stream.items = <<>>
            ELSE /\ Len(stream.items) = 1
                 /\ stream.items[1][sResponse] = StrVal(<<"f","o","l","l","o","w","s">>)
                 /\ stream.items[1][sContent] =
                      StrVal(Join(SubSeq(ls, 1, Len(ls) - 1), <<"\n">>))
  /\ (stream.fed = tFollows2 /\ stream.rest = <<>>)
       => stream.items[1][sContent] = StrVal(<<"R","e","s","p","o","n","s","e",":"," ","F","o","l","l","o","w","s","\n","\n","o","u","t">>)

\* the block with a blank line inside, ended by --END SMS EVENT--, arrived
C15_Witness ==
  /\ stream.fed = tFollows2
  /\ stream.rest = <<>>
  /\ Len(stream.items) = 1

\* C16: the input of scenario (c) yields exactly one follows item, whose
\* content is "line1\nline2" and whose actionid is "7".
C16_ScenarioCContent ==
  (stream.fed = tScenarioC /\ stream.rest = <<>>)
    => /\ Len(stream.items) = 1
       /\ stream.items[1][sResponse] = StrVal(<<"f","o","l","l","o","w","s">>)
       /\ stream.items[1][sContent] =
            StrVal(<<"l","i","n","e","1","\n","l","i","n","e","2">>)
       /\ Has(stream.items[1], sActionid)
       /\ stream.items[1][sActionid] = StrVal(<<"7">>)

\* C17: when the delivery of a follows block without identifier invokes the
\* completion callback of a call, that call's action was written under the
\* identifier that was lastid when the block was received.
C17_FollowsToLastWritten ==
  [][\A c \in 1..Len(calls) :
       (Delivered(c) /\ fired'[c][Len(fired'[c])].kind = "lastid")
         => /\ ticks # <<>>
            /\ \E i \in WrittenAt(c) : writes[i].id = Head(ticks).name]_vars

\* the one item emitted for text t, once t has arrived whole
ItemOf(t) == stream.items[1]
Arrived(t) == stream.fed = t /\ stream.rest = <<>>

\* C18: the keys of an item are in lower case; a key that appears more than
\* once gets the array of its values in their order of appearance; the
\* variable lines "name=value" of a block make one mapping from name to
\* value under the key variable.
C18_RepeatedKeysAsArray ==
  /\ Arrived(tRepeat)
       => /\ Len(stream.items) = 1
          /\ DOMAIN ItemOf(tRepeat) = {<<"a">>}
          /\ ItemOf(tRepeat)[<<"a">>] = ArrVal(<< <<"1">>, <<"2">>, <<"3">> >>)
  /\ Arrived(tVariables)
       => /\ Len(stream.items) = 1
          /\ DOMAIN ItemOf(tVariables) = {sVariable, <<"a">>}
          /\ ItemOf(tVariables)[sVariable] =
               MapVal(<< <<"n">>, <<"v">>, <<"m">>, <<"w">> >>)
          /\ ItemOf(tVariables)[<<"a">>] = StrVal(<<"1">>)
  /\ Arrived(tCtor)
       => /\ Len(stream.items) = 1
          /\ DOMAIN ItemOf(tCtor) = {sConstructor}
          /\ ItemOf(tCtor)[sConstructor] = ArrVal(<< <<"1">>, <<"2">> >>)

\* C19: the well-formed blocks that follow a block holding a line without
\* separator are emitted, whole and in their order.
C19_MalformedBlockSkipped ==
  /\ Arrived(tGarbage1)
       => /\ Len(stream.items) = 2
          /\ stream.items[2] = (<<"a">> :> ArrVal(<< <<"1">>, <<"2">> >>))
  /\ Arrived(tGarbage2)
       => /\ Len(stream.items) = 3
          /\ stream.items[2] = (<<"a">> :> StrVal(<<"1">>))
          /\ stream.items[3] = (sEvent :> StrVal(tHangup))

\* the line without separator and the two blocks after it have arrived
C19_Witness ==
  /\ Arrived(tGarbage2)
  /\ Len(stream.items) = 3
  /\ DOMAIN stream.items[1] = {lNoSep}

\* the channels item number i of the streamed text was published to, in order
Channels(i) ==
  LET chans == SelectSeq(stream.routed[i], LAMBDA r : r.kind = "chan")
  IN [j \in 1..Len(chans) |-> chans[j].name]

cAll       == <<"m","a","n","a","g","e","r","e","v","e","n","t">>
cUserevent == <<"u","s","e","r","e","v","e","n","t">>

\* C20: an item with an event field (and no response field) is published
\* to "managerevent", then to the channel named by its event name in lower
\* case, the first one if the field is an array, and then, exactly when that
\* name is "userevent" and the item has a non-empty userevent field, to
\* "userevent-" followed by that field in lower case; to no other channel.
C20_EventChannels ==
  /\ \A i \in 1..Len(stream.items) :
       LET item == stream.items[i]
           norm == ToLower(item[sEvent].v[1])
       IN (Truthy(item, sEvent) /\ ~Has(item, sResponse))
            => Channels(i) =
                 <<cAll, norm>> \o
                   (IF norm = cUserevent /\ Truthy(item, cUserevent)
                    THEN << <<"u","s","e","r","e","v","e","n","t","-">> \o ToLower(item[cUserevent].v[1]) >>
                    ELSE <<>>)
  /\ Arrived(tBooted)
       => /\ Channels(1) = <<cAll, <<"f","u","l","l","y","b","o","o","t","e","d">>>>
          /\ stream.items[1][<<"p","r","i","v","i","l","e","g","e">>] = StrVal(<<"s","y","s","t","e","m",",","a","l","l">>)
  /\ Arrived(tUser1) => Channels(1) = <<cAll, cUserevent, <<"u","s","e","r","e","v","e","n","t","-","f","o","o">>>>
  /\ Arrived(tUser2) => Channels(1) = <<cAll, cUserevent>>
  /\ Arrived(tEvents) => Channels(1) = <<cAll, <<"h","a","n","g","u","p">>>>
  /\ Arrived(tHangUser) => Channels(1) = <<cAll, <<"h","a","n","g","u","p">>>>

\* a user event has been routed to its three channels
C20_Witness ==
  /\ Arrived(tUser1)
  /\ Len(stream.routed) = 1
  /\ Len(Channels(1)) = 3

\* the number of times x stands in the sequence seq
Occ(seq, x) == Cardinality({i \in 1..Len(seq) : seq[i] = x})

\* the key of a field as the frame shows it: trimmed, in lower case but for
\* its first letter
ShownKey(f) ==
  LET k == ToLower(removeSpaces(f.key))
  IN IF k = <<>> THEN <<>> ELSE <<UpperChar(k[1])>> \o SubSeq(k, 2, Len(k))

\* a field with something to send: a key other than actionid and a value
\* other than undefined, null or a regular expression
Defined(f) ==
  /\ ShownKey(f) # <<>>
  /\ ShownKey(f) # <<"A","c","t","i","o","n","i","d">>
  /\ f.val.t \in {"str", "arr", "map"}

\* the lines the wire format has for a defined field
WireLines(f) ==
  IF f.val.t = "str" THEN { ShownKey(f) \o <<":", " ">> \o f.val.v[1] }
  ELSE IF f.val.t = "arr" THEN { ShownKey(f) \o <<":", " ">> \o Join(f.val.v, <<",">>) }
  ELSE { ShownKey(f) \o <<":", " ">> \o f.val.v[2 * i - 1] \o <<"=">> \o f.val.v[2 * i] :
           i \in 1..(Len(f.val.v) \div 2) }

\* C21: the text makeActionText(req, id) returns ends with CRLF CRLF; the
\* lines before it, separated by CRLF, are in increasing order; exactly one
\* of them is "ActionID: <id>" and no other line has the key actionid, in
\* any case; and the other lines are, each once, the lines of the defined
\* fields: "<Key>: <value>" for a string, "<Key>: <e1>,<e2>,..." for an
\* array, one "<Key>: <name>=<value>" per name of a mapping.
C21_FrameFormat ==
  frame.done /\ frame.text # <<>> =>
    LET n      == Len(frame.text)
        lines  == SplitLines(SubSeq(frame.text, 1, n - 4))
        idLine == <<"A","c","t","i","o","n","I","D",":"," ">> \o frame.id
        fields == {i \in 1..Len(frame.req) : Defined(frame.req[i])}
        wire   == UNION {WireLines(frame.req[i]) : i \in fields}
    IN /\ n >= 4
       /\ SubSeq(frame.text, n - 3, n) = <<"\r", "\n", "\r", "\n">>
       /\ \A i \in 1..n : frame.text[i] = "\n" => (i > 1 /\ frame.text[i - 1] = "\r")
       /\ \A i \in 1..(Len(lines) - 1) : ~StrBefore(lines[i + 1], lines[i])
       /\ Occ(lines, idLine) = 1
       /\ \A i \in 1..Len(lines) :
            HasPrefix(ToLower(lines[i]), <<"a","c","t","i","o","n","i","d",":">>)
              => lines[i] = idLine
       /\ \A x \in wire :
            Occ(lines, x) = Cardinality({i \in fields : x \in WireLines(frame.req[i])})
       /\ \A i \in 1..Len(lines) : lines[i] = idLine \/ lines[i] \in wire
       /\ \A i \in fields :
            frame.req[i].val.t = "map"
              => Cardinality(WireLines(frame.req[i])) = Len(frame.req[i].val.v) \div 2

\* a request with a field ActionID and a mapping of two names has been
\* turned into a text of three lines
C21_Witness ==
  /\ frame.done
  /\ \E i, j \in 1..Len(frame.req) :
       /\ frame.req[i].key = kActionID
       /\ frame.req[i].val.t = "str"
       /\ frame.req[j].val.t = "map"
       /\ Len(frame.req[j].val.v) = 4
  /\ Len(SplitLines(frame.text)) = 5

\* the calls whose action went to the held queue because there was no
\* connection to write it to, and is still there
Unsent(c) == ~calls[c].held /\ HeldAt(c) # {}

\* C22: a call of action() made while there is no connection, with a login
\* action or on an authenticated Manager, returns its identifier, appends
\* the action under that identifier and its callback to the held queue,
\* writes nothing, registers no completion binding and invokes no callback;
\* the action then stands once in the queue until a login completes without
\* error on a Manager that has a connection, and that step writes it.
C22_UnsentHeldThenWritten ==
  [][/\ (/\ Len(calls') = Len(calls) + 1
         /\ context.connection = NoSocket
         /\ (context.authenticated \/ calls'[Len(calls')].login))
        => /\ context'.held =
                Append(context.held,
                       [action |-> [action |-> IF calls'[Len(calls')].login
                                               THEN sLogin ELSE tPing,
                                    actionid |-> calls'[Len(calls')].id],
                        callback |-> [c |-> Len(calls'),
                                      login |-> calls'[Len(calls')].login]])
           /\ writes' = writes
           /\ listeners' = listeners
           /\ context'.lastid = context.lastid
           /\ fired' = Append(fired, <<>>)
     /\ \A c \in 1..Len(calls) :
          Unsent(c) =>
            \/ /\ context'.held # <<>>
               /\ Cardinality({i \in 1..Len(context'.held) :
                                 context'.held[i].callback.c = c}) = 1
               /\ \A i \in 1..Len(context'.held) :
                    context'.held[i].callback.c = c
                      => context'.held[i].action.actionid = calls[c].id
               /\ {i \in 1..Len(writes') : writes'[i].cb.c = c} = {}
            \/ /\ \E d \in 1..Len(calls) : LoginDelivered(d, FALSE)
               /\ context.connection # NoSocket
               /\ \A i \in 1..Len(context'.held) : context'.held[i].callback.c # c
               /\ Cardinality({i \in 1..Len(writes') : writes'[i].cb.c = c}) = 1
     /\ \A d \in 1..Len(calls) :
          (LoginDelivered(d, FALSE) /\ context.connection # NoSocket)
            => \A c \in 1..Len(calls) :
                 Unsent(c) => \E i \in (Len(writes) + 1)..Len(writes') :
                                writes'[i].cb.c = c]_vars

\* an action submitted on an authenticated Manager without connection has
\* been written after a login made later
C22_Witness ==
  \E c, d \in 1..Len(calls) :
    /\ c < d
    /\ ~calls[c].login /\ ~calls[c].held
    /\ calls[d].login
    /\ \E i \in WrittenAt(c), j \in WrittenAt(d) : j < i

\* C23: every write of the action of a call that went through the held
\* queue carries the identifier action() returned to that call.
C23_ReplayKeepsIdentifier ==
  \A c \in 1..Len(calls) :
    \A i \in WrittenAt(c) : writes[i].id = calls[c].id

\* C24: after a step, the Manager is not authenticated when the socket of
\* its connection is closed, and no action other than login was written in
\* the step to a socket that was closed.
C24_AuthenticatedOnlyWhileOpen ==
  [][/\ (/\ context'.connection # NoSocket
         /\ sockets'[context'.connection].readyState = "closed")
        => ~context'.authenticated
     /\ \A i \in (Len(writes) + 1)..Len(writes') :
          writes'[i].action # sLogin
            => sockets[writes'[i].sock].readyState # "closed"]_vars

\* C25: at most one socket whose handlers are attached to the Manager is
\* opening or open.
C25_OneLiveSocket ==
  Cardinality({s \in 1..MaxSockets : sockets[s].readyState \in {"opening", "open"}}) <= 1

\* C26: once a socket has closed, no completion binding is left of those
\* registered for the actions written to it.
C26_CloseDiscardsPending ==
  [][\A s \in 1..MaxSockets :
       (/\ sockets[s].readyState \in {"opening", "open", "readOnly"}
        /\ sockets'[s].readyState \in {"closed", "none"})
         => \A l \in listeners' :
              ~\E i \in 1..Len(writes') :
                 /\ writes'[i].sock = s
                 /\ writes'[i].id = l.name
                 /\ writes'[i].cb = l.cb]_vars

\* C27: the step that delivers a response carrying the identifier X invokes
\* the callback of the one completion binding registered under X, once, and
\* of no other call, removes that binding and leaves every binding
\* registered under another identifier in place.
C27_MatchedByIdentifier ==
  [][(/\ ticks # <<>>
      /\ Head(ticks).kind = "id"
      /\ ticks' = Tail(ticks))
       => LET X == Head(ticks).name
          IN /\ \A c \in 1..Len(calls) :
                  Len(fired'[c]) = Len(fired[c]) +
                    (IF \E l \in listeners : l.name = X /\ l.cb.c = c THEN 1 ELSE 0)
             /\ \A l \in listeners :
                  IF l.name = X THEN l \notin listeners' ELSE l \in listeners'
             /\ Len(calls') = Len(calls)]_vars

\* of two actions written one after the other, the second has been answered
\* and the first is still awaited
C27_Witness ==
  \E c, d \in 1..Len(calls) :
    /\ c < d
    /\ \E i \in WrittenAt(c), j \in WrittenAt(d) : i < j
    /\ fired[c] = <<>>
    /\ Len(fired[d]) = 1 /\ fired[d][1].kind = "id"
    /\ \E l \in listeners : l.cb.c = c

\* C28: a block holding a line without separator makes handleData emit no
\* item: the items emitted for a text are those of its other blocks.
C28_MalformedBlockDropped ==
  /\ Arrived(tGarbage1)
       => stream.items = << (<<"a">> :> ArrVal(<< <<"1">>, <<"2">> >>)) >>
  /\ Arrived(tGarbage2)
       => stream.items = << (<<"a">> :> StrVal(<<"1">>)),
                            (sEvent :> StrVal(tHangup)) >>

\* C29: an item published on the channel "asterisk" is delivered neither to
\* a completion (by its actionid, or as a follows block by lastid) nor to
\* the channel "response" nor to the event channels.
C29_UnclassifiedExclusive ==
  \A i \in 1..Len(stream.routed) :
    (\E j \in 1..Len(stream.routed[i]) :
        stream.routed[i][j] = [kind |-> "chan", name |-> sAsterisk])
      => \A j \in 1..Len(stream.routed[i]) :
           /\ stream.routed[i][j].kind = "chan"
           /\ stream.routed[i][j].name \notin {sResponse, sManagerevent}

\* C30: when keepConnected() has been called and disconnect() has not, a
\* socket 'close' arms one timer with the current backoff delay; and a
\* timer that fires leaves the Manager with a connection and, a username
\* being configured, either with a new socket that logs in once it connects
\* or, the connection being live already, with a login made at once.
C30_CloseThenReconnect ==
  [][/\ (reconnect.asked /\ ~reconnect.left /\ budget'.closes < budget.closes)
        => timers' = Append(timers, context.backoff)
     /\ Len(timers') < Len(timers)
        => /\ context'.connection # NoSocket
           /\ options.username
                => \/ /\ sockets'[context'.connection].readyState = "opening"
                      /\ sockets'[context'.connection].cb = "login"
                   \/ /\ Len(calls') = Len(calls) + 1
                      /\ calls'[Len(calls')].login]_vars

\* C31: the completion callback of a call is invoked only on the delivery of
\* a response carrying an actionid or of a follows block without one, never
\* on the publication of an item on a channel.
C31_OnlyResponsesComplete ==
  [][\A c \in 1..Len(calls) :
       Delivered(c) => fired'[c][Len(fired'[c])].kind \in {"id", "lastid"}]_vars

\* C32: a reconnect timer is armed only in the step of a socket 'close', and
\* the backoff interval goes down only in the step of a socket 'connect'.
C32_OnlySocketEventsReconnect ==
  [][/\ Len(timers') > Len(timers) => budget'.closes < budget.closes
     /\ context'.backoff < context.backoff
          => \E s \in 1..MaxSockets : /\ sockets[s].readyState = "opening"
                                      /\ sockets'[s].readyState = "open"]_vars

\* C33: the deliveries scheduled for the messages received so far all run,
\* and the process.nextTick queue empties.
C33_RoutingTerminates == (ticks # <<>>) ~> (ticks = <<>>)

\* C34: once a later connection has received part of its text, the items
\* emitted for it and the pending lines and partial line are those
\* handleData makes of the text of that connection alone.
C34_NoCarryOver ==
  (stream.sock # NoSocket /\ ~stream.over /\ stream.again = <<>>)
    => LET alone == Assemble(<<>>, <<>>, stream.fed)
       IN /\ stream.items = alone.items
          /\ context.lines = alone.lines
          /\ context.leftOver = alone.leftOver

\* the written actions sendAction made for service call number k
OwnWrites(k) ==
  {w \in 1..Len(writes) : /\ writes[w].cb.c = service.calls[k].c
                          /\ ~writes[w].cb.login}

ListsSent(w) ==
  Cardinality({i \in 1..Len(service.sent) :
                 service.sent[i].w = w /\ service.sent[i].kind = "list"})

\* C35: a getPjsipEndpoints() call that has resolved holds the EndpointList
\* events sent for its own PJSIPShowEndpoints action, all of them and no
\* others, and the EndpointListComplete of that action has been sent.
C35_CallsIsolated ==
  \A k \in 1..Len(service.calls) :
    service.calls[k].outcome = "resolved"
      => \E w \in OwnWrites(k) :
           /\ \A i \in 1..Len(service.calls[k].events) :
                /\ Has(service.calls[k].events[i], sActionid)
                /\ service.calls[k].events[i][sActionid] = StrVal(writes[w].id)
           /\ Len(service.calls[k].events) = ListsSent(w)
           /\ \E i \in 1..Len(service.sent) :
                service.sent[i].w = w /\ service.sent[i].kind = "complete"

====
